---- MODULE Spec2Model ----
(***************************************************************************)
(* Public-transport display widget (src/widget/src/lib.rs).                *)
(*                                                                         *)
(* The host calls run(context) and the metadata queries, one call at a     *)
(* time.  run decodes the configuration, fetches one transport response    *)
(* per configured station pair through the host's http collaborator and    *)
(* renders each into a text fragment; get_departure_string reads the       *)
(* host's clock once per examined record (the filter closure) and once     *)
(* more per rendered line (format_departure_offset).                       *)
(*                                                                         *)
(* Rust Strings are TLA+ strings, built with \o as the code builds them    *)
(* with format! and +=.  Times are unix seconds; every timestamp of the    *)
(* model carries the offset +00:00.                                        *)
(***************************************************************************)
EXTENDS Integers, Sequences, FiniteSets, TLC

\* ------------------------------------------------------------------ bounds

\* Seconds between two values of the host clock, and between two departures.
TickSeconds == 60
\* The host clock runs from 0 to MaxTicks * TickSeconds; departures lie on
\* the same grid, at 1..MaxTicks ticks.
MaxTicks == 2
\* Longest connections array of a transport response.
MaxConns == 3

VARIABLES
    pc,         \* position of the host/guest: idle, await, filter, offset, map, done, aborted
    config,     \* context.config of the invocation in progress (or the last one)
    cfg,        \* config.connections, the decoded WidgetConfig
    i,          \* position of config.connections.iter() (1-based)
    results,    \* the fragments collected so far by .collect::<Vec<_>>()
    response,   \* what http::request returned for pair i
    content,    \* get_departure_string's buffer
    k,          \* position of data.connections.iter() inside the filter
    taken,      \* how many records Take has yielded
    cur,        \* the record the for loop is rendering
    clock,      \* the host's wall clock, clocks::now().seconds
    output,     \* what run returned to the host
    answer,     \* what the last metadata query returned
    reqLog,     \* history: the URLs requested during the invocation
    reads,      \* history: the clock values read while rendering pair i
    produced,   \* history: the strings fetch_connection returned, in order
    decoded,    \* history: whether serde_json::from_str saw the configuration
    earlier     \* history: how the invocation before this one ended

vars == <<pc, config, cfg, i, results, response, content, k, taken, cur, clock,
          output, answer, reqLog, reads, produced, decoded, earlier>>

\* ----------------------------------------------------------- configuration

StationBern == "Bern"
StationBasel == "Basel SBB"

Pair(f, t, n) == [from_station |-> f, to_station |-> t, num_connections |-> n]

\* A JSON document as serde_json sees it: whether it is well-formed, the keys
\* of the top-level object, and the elements of its "connections" array.
Json(wf, keys, conns) == [wellformed |-> wf, keys |-> keys, connections |-> conns]

ConfigEmpty == "{}"
ConfigBlank == "{ }"
ConfigNotJson == "connections"
ConfigSinglePair == "{\"from_station\":\"Bern\",\"to_station\":\"Basel SBB\",\"num_connections\":2}"
ConfigNoPairs == "{\"connections\":[]}"
ConfigOnePair == "{\"connections\":[{\"from_station\":\"Bern\",\"to_station\":\"Basel SBB\",\"num_connections\":2}]}"
ConfigTwoPairs == "{\"connections\":[{\"from_station\":\"Bern\",\"to_station\":\"Basel SBB\",\"num_connections\":0},{\"from_station\":\"Basel SBB\",\"to_station\":\"Bern\",\"num_connections\":1}]}"
ConfigDuplicate == "{\"connections\":[{\"from_station\":\"Bern\",\"to_station\":\"Bern\",\"num_connections\":0},{\"from_station\":\"Bern\",\"to_station\":\"Bern\",\"num_connections\":0}]}"
ConfigTooMany == "{\"connections\":[{\"from_station\":\"Bern\",\"to_station\":\"Basel SBB\",\"num_connections\":256}]}"

ConfigStrings ==
    {ConfigEmpty, ConfigBlank, ConfigNotJson, ConfigSinglePair, ConfigNoPairs,
     ConfigOnePair, ConfigTwoPairs, ConfigDuplicate, ConfigTooMany}

\* The JSON value each configuration text denotes.
ParseJson(text) ==
    CASE text = ConfigEmpty -> Json(TRUE, {}, <<>>)
      [] text = ConfigBlank -> Json(TRUE, {}, <<>>)
      [] text = ConfigNotJson -> Json(FALSE, {}, <<>>)
      [] text = ConfigSinglePair ->
            Json(TRUE, {"from_station", "to_station", "num_connections"}, <<>>)
      [] text = ConfigNoPairs -> Json(TRUE, {"connections"}, <<>>)
      [] text = ConfigOnePair ->
            Json(TRUE, {"connections"}, <<Pair(StationBern, StationBasel, 2)>>)
      [] text = ConfigTwoPairs ->
            Json(TRUE, {"connections"},
                 <<Pair(StationBern, StationBasel, 0), Pair(StationBasel, StationBern, 1)>>)
      [] text = ConfigDuplicate ->
            Json(TRUE, {"connections"},
                 <<Pair(StationBern, StationBern, 0), Pair(StationBern, StationBern, 0)>>)
      [] text = ConfigTooMany ->
            Json(TRUE, {"connections"}, <<Pair(StationBern, StationBasel, 256)>>)

\* #[derive(Deserialize)] struct Connection: num_connections is a u8.
ConnectionDecodes(p) == p.num_connections \in 0..255

\* Mutant: the connections field defaults to an empty list when missing.
ConfigDecodesLenient(text) ==
    LET j == ParseJson(text)
    IN  /\ j.wellformed
        /\ \A n \in 1..Len(j.connections) : ConnectionDecodes(j.connections[n])

\* #[derive(Deserialize)] struct WidgetConfig { connections: Vec<Connection> }:
\* the field is required, unknown fields are ignored.
ConfigDecodes(text) ==
    LET j == ParseJson(text)
    IN  /\ j.wellformed
        /\ "connections" \in j.keys
        /\ \A n \in 1..Len(j.connections) : ConnectionDecodes(j.connections[n])

DecodeConfig(text) == ParseJson(text).connections

\* ------------------------------------------------------- transport responses

Departures == {n * TickSeconds : n \in 1..MaxTicks}

SeqsUpTo(S, n) == UNION {[1..m -> S] : m \in 0..n}

\* The body of a response: bytes that are a transport payload (from.name,
\* to.name and connections[].from.departure), or bytes that are not.
PayloadBody(f, t, deps) ==
    [payload |-> TRUE, from |-> f, to |-> t, connections |-> deps]
MalformedBody == [payload |-> FALSE, from |-> "", to |-> "", connections |-> <<>>]

PayloadBodies == {PayloadBody("A", "B", d) : d \in SeqsUpTo(Departures, MaxConns)}
Bodies == PayloadBodies \cup {MalformedBody}

StatusCodes == {200, 404, 500}

\* http::request's Result<Response, ()>.
HttpError == [ok |-> FALSE, status |-> 0, body |-> MalformedBody]
HttpResponse(s, b) == [ok |-> TRUE, status |-> s, body |-> b]
Responses == {HttpError} \cup {HttpResponse(s, b) : s \in StatusCodes, b \in Bodies}

\* serde_json::from_slice::<PublicTransportData>.
BodyDecodes(body) == body.payload
ParseErrorDetail == "Error(\"expected value\", line: 1, column: 1)"

\* urlencoding::encode of a station name.
UrlEncode(name) ==
    CASE name = StationBern -> "Bern"
      [] name = StationBasel -> "Basel%20SBB"

RequestUrl(connection) ==
    "http://transport.opendata.ch/v1/connections?from="
        \o UrlEncode(connection.from_station)
        \o "&to=" \o UrlEncode(connection.to_station) \o "&limit=16"

\* ------------------------------------------------------------- formatting

Pad2(n) == IF n < 10 THEN "0" \o ToString(n) ELSE ToString(n)

\* departure.format("[hour]:[minute]"), offset +00:00.
format_departure_time(departure) ==
    Pad2((departure \div 3600) % 24) \o ":" \o Pad2((departure \div 60) % 60)

Abs(n) == IF n < 0 THEN -n ELSE n
Max(a, b) == IF a > b THEN a ELSE b

\* HumanTime::from(d).to_text_en(Accuracy::Rough, Tense::Future) for a
\* duration of d seconds, as the time_humanize crate words it, up to hours.
HumanizeRoughFuture(d) ==
    IF d > 5400 THEN "in " \o ToString(Max(d \div 3600, 2)) \o " hours"
    ELSE IF d > 2700 THEN "in an hour"
    ELSE IF d > 90 THEN "in " \o ToString(Max(d \div 60, 2)) \o " minutes"
    ELSE IF d > 45 THEN "in a minute"
    ELSE IF d > 10 THEN "in " \o ToString(d) \o " seconds"
    ELSE "now"

\* departure - MyWidget::now(), unsigned_abs, humanized.
format_departure_offset(departure, now) == HumanizeRoughFuture(Abs(departure - now))

\* Mutant: a departure at exactly now counts as future.
IsFutureOrNow(departure, now) == departure - now >= 0

\* The filter closure: (departure - MyWidget::now()).is_positive().
IsFuture(departure, now) == departure - now > 0

\* Mutant: the two station names exchanged.
HeaderSwapped(data) == data.to \o " -> " \o data.from

Header(data) == data.from \o " -> " \o data.to

DepartureLine(departure, now) ==
    "\n" \o format_departure_offset(departure, now)
         \o " (" \o format_departure_time(departure) \o ")"

\* Mutant: the fragments concatenated without the separator.
RECURSIVE JoinNoSeparator(_)
JoinNoSeparator(strs) ==
    IF Len(strs) = 0 THEN "" ELSE strs[1] \o JoinNoSeparator(Tail(strs))

\* .collect::<Vec<_>>().join("\n")
RECURSIVE Join(_)
Join(strs) ==
    IF Len(strs) = 0 THEN ""
    ELSE IF Len(strs) = 1 THEN strs[1]
    ELSE strs[1] \o "\n" \o Join(Tail(strs))

\* ------------------------------------------------------------------ state

NoResponse == [ok |-> FALSE, status |-> -1, body |-> MalformedBody]
NoOutput == [returned |-> FALSE, data |-> ""]
WidgetResult(text) == [returned |-> TRUE, data |-> text]
NoAnswer == [query |-> "", text |-> "", number |-> 0]

WIDGET_NAME == "Public Transport"

Resting == {"idle", "done", "aborted"}

Init ==
    /\ pc = "idle"
    /\ config = ConfigEmpty
    /\ cfg = <<>>
    /\ i = 1
    /\ results = <<>>
    /\ response = NoResponse
    /\ content = ""
    /\ k = 1
    /\ taken = 0
    /\ cur = 0
    /\ clock = 0
    /\ output = NoOutput
    /\ answer = NoAnswer
    /\ reqLog = <<>>
    /\ reads = <<>>
    /\ produced = <<>>
    /\ decoded = FALSE
    /\ earlier = "none"

\* The locals of get_departure_string, dropped when it returns.
RenderLocalsDropped ==
    /\ content' = ""
    /\ k' = 1
    /\ taken' = 0
    /\ cur' = 0

\* Mutant: an Err of fetch_connection ends the iteration (as with ? on a
\* collect into Result), so the pairs after it are never fetched.
CollectStopOnError(text) ==
    /\ results' = Append(results, text)
    /\ produced' = Append(produced, text)
    /\ i' = IF response'.ok /\ response'.status = 200 /\ response'.body.payload
            THEN i + 1 ELSE Len(cfg) + 1
    /\ pc' = "map"
    /\ RenderLocalsDropped

\* The map closure of run: the string fetch_connection returned, Ok or Err,
\* goes into the Vec and the iterator moves to the next pair.
Collect(text) ==
    /\ results' = Append(results, text)
    /\ produced' = Append(produced, text)
    /\ i' = i + 1
    /\ pc' = "map"
    /\ RenderLocalsDropped

\* ------------------------------------------------------------------- run

\* Mutant: the fragments live in a buffer that outlives the call.
StaleResults == results

\* The Vec that .collect() fills: a new one in every call.
FreshResults == <<>>

\* Mutant: the sentinel is the empty string.
IsNoConfigNever(c) == "" = c

\* The sentinel test at the top of run: "{}" == context.config.
IsNoConfig(c) == "{}" = c

\* run, up to the first fetch: the "{}" sentinel, the decode, the abort.
Run(c) ==
    /\ pc \in Resting
    /\ config' = c
    /\ answer' = NoAnswer
    /\ reqLog' = <<>>
    /\ reads' = <<>>
    /\ produced' = <<>>
    /\ response' = NoResponse
    /\ i' = 1
    /\ earlier' = IF pc = "idle" THEN "none" ELSE pc
    /\ RenderLocalsDropped
    /\ UNCHANGED clock
    /\ \/ /\ IsNoConfig(c)
          /\ decoded' = FALSE
          /\ cfg' = <<>>
          /\ results' = <<>>
          /\ output' = WidgetResult("No config provided")
          /\ pc' = "done"
       \/ /\ ~IsNoConfig(c)
          /\ ~ConfigDecodes(c)
          /\ decoded' = TRUE
          /\ cfg' = <<>>
          /\ results' = <<>>
          /\ output' = NoOutput
          /\ pc' = "aborted"
       \/ /\ ~IsNoConfig(c)
          /\ ConfigDecodes(c)
          /\ decoded' = TRUE
          /\ cfg' = DecodeConfig(c)
          /\ results' = FreshResults
          /\ output' = NoOutput
          /\ pc' = "map"

\* fetch_connection, up to http::request: one GET for pair i.
Request ==
    /\ pc = "map"
    /\ i <= Len(cfg)
    /\ reqLog' = Append(reqLog, RequestUrl(cfg[i]))
    /\ pc' = "await"
    /\ UNCHANGED <<config, cfg, i, results, response, content, k, taken, cur,
                   clock, output, answer, reads, produced, decoded,
                   earlier>>

\* Mutant: the body is decoded before the status is looked at.
FetchErrorParseFirst(r) ==
    IF ~r.ok THEN "Failed to make network request"
    ELSE IF ~BodyDecodes(r.body) THEN "Failed to parse response: " \o ParseErrorDetail
    ELSE IF 200 # r.status THEN "Response status != 200: " \o ToString(r.status)
    ELSE ""

\* fetch_connection's early returns, in the order the code tests them:
\* the Err text, or "" when the response goes on to get_departure_string.
FetchError(r) ==
    IF ~r.ok THEN "Failed to make network request"
    ELSE IF 200 # r.status THEN "Response status != 200: " \o ToString(r.status)
    ELSE IF ~BodyDecodes(r.body) THEN "Failed to parse response: " \o ParseErrorDetail
    ELSE ""

\* num_departures as fetch_connection passes it.
NumDepartures(connection) == connection.num_connections

\* http::request returns r; fetch_connection runs on to its early return or
\* into get_departure_string, up to the first pull of the for loop.
Receive(r) ==
    /\ pc = "await"
    /\ response' = r
    /\ reads' = <<>>
    /\ UNCHANGED <<config, cfg, clock, output, answer, reqLog, decoded, earlier>>
    /\ \/ /\ FetchError(r) # ""
          /\ Collect(FetchError(r))
       \/ /\ FetchError(r) = ""
          /\ r.body.connections = <<>>
          /\ Collect(Header(r.body) \o "\nNo departures")
       \/ /\ FetchError(r) = ""
          /\ r.body.connections # <<>>
          /\ content' = Header(r.body)
          /\ k' = 1
          /\ taken' = 0
          /\ cur' = 0
          /\ pc' = "filter"
          /\ UNCHANGED <<i, results, produced>>

\* Mutant: Take yields one record more than asked for.
TakeExhaustedOffByOne(want) == taken > want

\* Take::next with nothing left to take, or the filter at the end of
\* data.connections: the for loop ends and get_departure_string returns.
TakeExhausted(want) == taken >= want

LoopEnd ==
    /\ pc = "filter"
    /\ \/ TakeExhausted(NumDepartures(cfg[i]))
       \/ k > Len(response.body.connections)
    /\ Collect(content)
    /\ UNCHANGED <<config, cfg, response, clock, output, answer, reqLog, reads,
                   decoded,
                   earlier>>

\* The filter closure on record k: it reads the clock and rejects the record.
FilterSkip ==
    /\ pc = "filter"
    /\ ~TakeExhausted(NumDepartures(cfg[i]))
    /\ k <= Len(response.body.connections)
    /\ ~IsFuture(response.body.connections[k], clock)
    /\ reads' = Append(reads, clock)
    /\ k' = k + 1
    /\ UNCHANGED <<pc, config, cfg, i, results, response, content, taken, cur,
                   clock, output, answer, reqLog, produced, decoded,
                   earlier>>

\* The filter closure on record k: it reads the clock and keeps the record,
\* which Take hands to the for loop.
FilterPass ==
    /\ pc = "filter"
    /\ ~TakeExhausted(NumDepartures(cfg[i]))
    /\ k <= Len(response.body.connections)
    /\ IsFuture(response.body.connections[k], clock)
    /\ reads' = Append(reads, clock)
    /\ cur' = k
    /\ k' = k + 1
    /\ taken' = taken + 1
    /\ pc' = "offset"
    /\ UNCHANGED <<config, cfg, i, results, response, content, clock, output,
                   answer, reqLog, produced, decoded,
                   earlier>>

\* The loop body: format_departure_offset reads the clock again, and the
\* line goes onto content.
AppendLine ==
    /\ pc = "offset"
    /\ reads' = Append(reads, clock)
    /\ content' = content \o DepartureLine(response.body.connections[cur], clock)
    /\ pc' = "filter"
    /\ UNCHANGED <<config, cfg, i, results, response, k, taken, cur, clock,
                   output, answer, reqLog, produced, decoded,
                   earlier>>

\* The map iterator is at its end: run joins the Vec and returns.
Return ==
    /\ pc = "map"
    /\ i > Len(cfg)
    /\ output' = WidgetResult(Join(results))
    /\ pc' = "done"
    /\ cfg' = <<>>
    /\ i' = 1
    /\ response' = NoResponse
    /\ reads' = <<>>
    /\ UNCHANGED <<config, results, content, k, taken, cur, clock, answer,
                   reqLog, produced, decoded,
                   earlier>>

\* ------------------------------------------------------- metadata queries

GetName ==
    /\ pc \in Resting
    /\ answer' = [query |-> "get_name", text |-> WIDGET_NAME, number |-> 0]
    /\ UNCHANGED <<pc, config, cfg, i, results, response, content, k, taken, cur,
                   clock, output, reqLog, reads, produced, decoded,
                   earlier>>

GetVersion ==
    /\ pc \in Resting
    /\ answer' = [query |-> "get_version", text |-> "1.0.0", number |-> 0]
    /\ UNCHANGED <<pc, config, cfg, i, results, response, content, k, taken, cur,
                   clock, output, reqLog, reads, produced, decoded,
                   earlier>>

GetRunUpdateCycleSeconds ==
    /\ pc \in Resting
    /\ answer' = [query |-> "get_run_update_cycle_seconds", text |-> "", number |-> 90]
    /\ UNCHANGED <<pc, config, cfg, i, results, response, content, k, taken, cur,
                   clock, output, reqLog, reads, produced, decoded,
                   earlier>>

\* ------------------------------------------------------------ environment

\* The host's wall clock advances.
Tick ==
    /\ clock < MaxTicks * TickSeconds
    /\ clock' = clock + TickSeconds
    /\ UNCHANGED <<pc, config, cfg, i, results, response, content, k, taken, cur,
                   output, answer, reqLog, reads, produced, decoded, earlier>>

\* The steps of an invocation in progress.
Step ==
    \/ Request
    \/ \E r \in Responses : Receive(r)
    \/ LoopEnd
    \/ FilterSkip
    \/ FilterPass
    \/ AppendLine
    \/ Return

Next ==
    \/ \E c \in ConfigStrings : Run(c)
    \/ Request
    \/ \E r \in Responses : Receive(r)
    \/ LoopEnd
    \/ FilterSkip
    \/ FilterPass
    \/ AppendLine
    \/ Return
    \/ GetName
    \/ GetVersion
    \/ GetRunUpdateCycleSeconds
    \/ Tick

Spec == Init /\ [][Next]_vars

\* ===================================================================
\* Reference definitions for the properties
\* ===================================================================

\* pair n of the configuration of the invocation in progress
PairAt(n) == DecodeConfig(config)[n]

\* fetch_connection has just returned for pair i - 1: its string is the last
\* one produced, and response is the response it was given.
Fetched == pc = "map" /\ i > 1
Fragment == produced[Len(produced)]
Want == PairAt(i - 1).num_connections
Data == response.body

\* get_departure_string has just returned to fetch_connection.
Rendered == Fetched /\ response.ok /\ response.status = 200 /\ Data.payload

\* every clock read of the render returned the same instant
OneInstant == reads # <<>> /\ \A n \in 1..Len(reads) : reads[n] = reads[1]

\* the records of conns departing strictly after now, in source order
RECURSIVE FutureOf(_, _)
FutureOf(conns, now) ==
    IF conns = <<>> THEN <<>>
    ELSE IF Head(conns) > now THEN <<Head(conns)>> \o FutureOf(Tail(conns), now)
    ELSE FutureOf(Tail(conns), now)

FirstOf(seq, n) == SubSeq(seq, 1, IF n < Len(seq) THEN n ELSE Len(seq))

\* one line per record of deps, every phrase relative to the one instant now
RECURSIVE LinesOf(_, _)
LinesOf(deps, now) ==
    IF deps = <<>> THEN ""
    ELSE "\n" \o HumanizeRoughFuture(Head(deps) - now) \o " ("
              \o format_departure_time(Head(deps)) \o ")"
              \o LinesOf(Tail(deps), now)

HeaderOf(data) == data.from \o " -> " \o data.to

\* the render that reads the clock once, at now
RenderOnce(data, want, now) ==
    IF data.connections = <<>> THEN HeaderOf(data) \o "\nNo departures"
    ELSE HeaderOf(data) \o LinesOf(FirstOf(FutureOf(data.connections, now), want), now)

\* the lines of a render as a function of the clock values it read: one read
\* per examined record, one more per rendered line
RECURSIVE LinesRead(_, _, _)
LinesRead(conns, left, rd) ==
    IF left = 0 \/ conns = <<>> \/ rd = <<>> THEN ""
    ELSE IF Head(conns) > rd[1]
         THEN "\n" \o HumanizeRoughFuture(Abs(Head(conns) - rd[2])) \o " ("
                   \o format_departure_time(Head(conns)) \o ")"
                   \o LinesRead(Tail(conns), left - 1, Tail(Tail(rd)))
         ELSE LinesRead(Tail(conns), left, Tail(rd))

\* ------------------------------------------------------------------- C1
\* C1: for every transport response and every want >= 0, the rendered lines
\* are those of the first min(want, N) of the N records departing strictly
\* after now, in source order, past records in between skipped without
\* counting; for want = 0 no line is appended and no record is examined.
\* "now" is the instant the clock shows throughout the call; whatever the
\* clock does, the lines are those of the first records, in source order,
\* that depart after the clock value each was tested against.
C1_FirstFutureInSourceOrder ==
    (Rendered /\ Data.connections # <<>>) =>
        /\ Want = 0 => (Fragment = HeaderOf(Data) /\ reads = <<>>)
        /\ Fragment = HeaderOf(Data) \o LinesRead(Data.connections, Want, reads)
        /\ OneInstant =>
              Fragment = HeaderOf(Data)
                  \o LinesOf(FirstOf(FutureOf(Data.connections, reads[1]), Want), reads[1])

\* A render at one instant of future, past, future with want = 2: both future
\* records are rendered, in source order, the past one between them skipped.
C1_Witness ==
    /\ Rendered
    /\ OneInstant
    /\ Want = 2
    /\ Len(Data.connections) = 3
    /\ Data.connections[1] > reads[1]
    /\ Data.connections[2] <= reads[1]
    /\ Data.connections[3] > reads[1]
    /\ Fragment = HeaderOf(Data)
           \o LinesOf(<<Data.connections[1], Data.connections[3]>>, reads[1])

\* ------------------------------------------------------------------- C2
\* C2: for a response whose connections are empty, and for every want, the
\* output is the header followed by "\nNo departures", and the clock is not
\* read.
C2_EmptyConnections ==
    (Rendered /\ Data.connections = <<>>) =>
        /\ Fragment = Data.from \o " -> " \o Data.to \o "\nNo departures"
        /\ reads = <<>>

C2_Witness ==
    /\ Rendered
    /\ Data.connections = <<>>
    /\ Want = 1
    /\ Fragment = "A -> B\nNo departures"

\* ------------------------------------------------------------------- C3
\* C3: for a non-empty response in which every departure is <= now (the
\* first value the render reads from the clock), the output is the header
\* alone: no departure line and no "No departures" marker.
C3_AllPast ==
    (Rendered /\ Data.connections # <<>> /\ reads # <<>>
        /\ \A n \in 1..Len(Data.connections) : Data.connections[n] <= reads[1]) =>
        /\ Fragment = Data.from \o " -> " \o Data.to
        /\ Fragment # RenderOnce([Data EXCEPT !.connections = <<>>], Want, reads[1])

\* A record departing exactly at now was examined and not rendered.
C3_Witness ==
    /\ Rendered
    /\ Want > 0
    /\ Data.connections # <<>>
    /\ reads # <<>>
    /\ \A n \in 1..Len(Data.connections) : Data.connections[n] <= reads[1]
    /\ \E n \in 1..Len(Data.connections) : Data.connections[n] = reads[1]
    /\ Fragment = "A -> B"

\* the fragments joined with "\n", built from the left
RECURSIVE JoinLeft(_, _)
JoinLeft(strs, n) ==
    IF n = 0 THEN ""
    ELSE IF n = 1 THEN strs[1]
    ELSE JoinLeft(strs, n - 1) \o "\n" \o strs[n]

RenderRead(data, want, rd) ==
    IF data.connections = <<>> THEN HeaderOf(data) \o "\nNo departures"
    ELSE HeaderOf(data) \o LinesRead(data.connections, want, rd)

\* the string of one pair as a function of the pair, its response and the
\* clock values read
FetchRead(pair, r, rd) ==
    IF ~r.ok THEN "Failed to make network request"
    ELSE IF r.status # 200 THEN "Response status != 200: " \o ToString(r.status)
    ELSE IF ~r.body.payload THEN "Failed to parse response: " \o ParseErrorDetail
    ELSE RenderRead(r.body, pair.num_connections, rd)

Running == pc \notin Resting
Decodable == config # "{}" /\ ConfigDecodes(config)
NumPairs == IF Decodable THEN Len(DecodeConfig(config)) ELSE 0

\* ------------------------------------------------------------------- C4
\* C4: every failure of fetch_connection becomes a result string, with a
\* fixed precedence: a transport error gives "Failed to make network
\* request"; otherwise a status other than 200 gives "Response status !=
\* 200: {status}", whatever the body; otherwise an undecodable body gives
\* "Failed to parse response: ..."; only a decodable 200 response reaches the
\* renderer, called with the pair's num_connections.
C4_FailurePrecedence ==
    /\ Fetched =>
          /\ ~response.ok => Fragment = "Failed to make network request"
          /\ (response.ok /\ response.status # 200) =>
                Fragment = "Response status != 200: " \o ToString(response.status)
          /\ (response.ok /\ response.status = 200 /\ ~Data.payload) =>
                Fragment = "Failed to parse response: " \o ParseErrorDetail
          /\ (response.ok /\ response.status = 200 /\ Data.payload) =>
                Fragment = RenderRead(Data, PairAt(i - 1).num_connections, reads)
    /\ pc \in {"filter", "offset"} =>
          response.ok /\ response.status = 200 /\ Data.payload
    /\ pc = "aborted" => reqLog = <<>>

\* A 404 whose body is a valid payload with departures.
C4_Witness ==
    /\ Fetched
    /\ response.ok
    /\ response.status = 404
    /\ Data.payload
    /\ Data.connections # <<>>
    /\ Fragment = "Response status != 200: 404"

\* ------------------------------------------------------------------- C5
\* C5: for a decodable configuration with n pairs and any combination of
\* fetch outcomes, run completes and returns the n strings joined with "\n"
\* in configuration order; a failure neither aborts the invocation nor
\* changes or drops the fragment of another pair.
C5_Completed ==
    /\ (pc = "done" /\ Decodable) =>
          /\ output.returned
          /\ Len(produced) = NumPairs
          /\ output.data = JoinLeft(produced, NumPairs)
    /\ (pc = "aborted") => ~Decodable
    /\ Running => (results = produced /\ Len(results) < i /\ i <= NumPairs + 1)

C5_FragmentsKept ==
    (Running /\ Running') =>
        /\ Len(results') >= Len(results)
        /\ SubSeq(results', 1, Len(results)) = results

\* C5: the completed invocation returns the n fragments joined in order, and
\* no step of the invocation changes or drops a fragment already collected.
C5_JoinedInOrder == [](C5_Completed) /\ [][C5_FragmentsKept]_vars

\* Two pairs: the first fetch failed, the second rendered a departure.
C5_Witness ==
    /\ pc = "done"
    /\ config = ConfigTwoPairs
    /\ Len(produced) = 2
    /\ produced[1] = "Failed to make network request"
    /\ produced[2] = "A -> B\nin a minute (00:01)"
    /\ output.data = "Failed to make network request\nA -> B\nin a minute (00:01)"

\* ------------------------------------------------------------------- C6
\* C6: with the configuration "{}" run returns "No config provided", without
\* decoding the configuration, issuing a request or reading the clock.
C6_NoConfig ==
    config = "{}" =>
        /\ pc \in {"idle", "done"}
        /\ pc = "done" => output = WidgetResult("No config provided")
        /\ ~decoded
        /\ reqLog = <<>>
        /\ reads = <<>>
        /\ produced = <<>>

C6_Witness ==
    /\ config = "{}"
    /\ pc = "done"
    /\ output.data = "No config provided"

\* ------------------------------------------------------------------- C7
\* C7: every configuration other than "{}" that does not decode aborts the
\* invocation: nothing is returned and no request was issued; an invocation
\* ends completed with a text or aborted on the decode, never otherwise.
C7_DecodeAbort ==
    /\ (config \in {ConfigBlank, ConfigSinglePair, ConfigNotJson, ConfigTooMany}) =>
          /\ pc = "aborted"
          /\ output = NoOutput
          /\ reqLog = <<>>
          /\ produced = <<>>
    /\ pc = "aborted" => (config # "{}" /\ ~ConfigDecodes(config) /\ decoded)
    /\ pc = "done" => output.returned
    /\ Running => (Decodable /\ ~output.returned /\ ENABLED Step)

C7_Witness ==
    /\ config = ConfigBlank
    /\ pc = "aborted"
    /\ ~output.returned

\* ------------------------------------------------------------------- C8
\* C8: the render uses one reference instant: for a clock that may advance
\* between reads, the output equals that of the render reading the clock once
\* at the start (the value of its first read), and every record at the phrase stage departs strictly after
\* the clock value its phrase is computed from.
C8_OneInstant ==
    /\ (Rendered /\ reads # <<>>) => Fragment = RenderOnce(Data, Want, reads[1])
    /\ pc = "offset" => Data.connections[cur] - clock > 0

\* ------------------------------------------------------------------- C9
\* C9: for a decodable configuration with n pairs exactly n requests are
\* issued, one per pair in configuration order; the request for pair i + 1
\* is issued only after the response of pair i has become its fragment; no
\* request is retried and no failure suppresses a later request.
C9_OneRequestPerPair ==
    /\ Len(reqLog) <= NumPairs
    /\ \A n \in 1..Len(reqLog) : reqLog[n] = RequestUrl(PairAt(n))
    /\ pc \in {"await", "filter", "offset"} => Len(reqLog) = Len(produced) + 1
    /\ pc \in {"map", "done"} => Len(reqLog) = Len(produced)
    /\ pc = "done" => Len(reqLog) = NumPairs

\* A duplicated pair with num_connections = 0 whose first fetch failed: two
\* requests, to the same URL.
C9_Witness ==
    /\ pc = "done"
    /\ config = ConfigDuplicate
    /\ Len(reqLog) = 2
    /\ reqLog[1] = reqLog[2]
    /\ produced[1] = "Failed to make network request"
    /\ produced[2] = "A -> B"

\* ------------------------------------------------------------------ C10
\* C10: after any sequence of earlier invocations, what run returns is a
\* function of its configuration, the responses it receives and the clock
\* values it reads, and the metadata queries return their constants.
C10_Stateless ==
    /\ Fetched => Fragment = FetchRead(PairAt(i - 1), response, reads)
    /\ Running => results = produced
    /\ pc = "done" =>
          output = WidgetResult(IF config = "{}" THEN "No config provided"
                                ELSE JoinLeft(produced, Len(produced)))
    /\ pc = "aborted" => output = NoOutput
    /\ answer.query = "get_name" => answer.text = "Public Transport"
    /\ answer.query = "get_version" => answer.text = "1.0.0"
    /\ answer.query = "get_run_update_cycle_seconds" => answer.number = 90

\* An invocation that follows an aborted one has returned a rendered pair,
\* and the update cycle was queried after it.
C10_Witness ==
    /\ earlier = "aborted"
    /\ pc = "done"
    /\ config = ConfigOnePair
    /\ output.data = "A -> B\nin a minute (00:01)\nin 2 minutes (00:02)"
    /\ answer.query = "get_run_update_cycle_seconds"
    /\ answer.number = 90

====
